---- MODULE Spec2Model ----
(***************************************************************************)
(* Model of interactive_file_checker.py: the FileChecker class.            *)
(*   check_file  : classifies one path from what os.path.exists,           *)
(*                 os.path.getsize and open()/read() answer for it.        *)
(*   worker      : the loop of one worker thread.                          *)
(*   check_batch : fills the queue, starts the workers, joins them.        *)
(* Two specifications:                                                     *)
(*   Spec          - one call of check_batch with its worker threads,      *)
(*                   interleaved at the granularity of the shared          *)
(*                   accesses (queue, lock, results, processed, stdout);   *)
(*   SpecCheckFile - check_file alone, over every answer the filesystem    *)
(*                   can give.                                             *)
(***************************************************************************)
EXTENDS Integers, Sequences, FiniteSets, TLC

(***************************************************************************)
(* Bounds of the model.                                                    *)
(***************************************************************************)
\* longest file_list handed to check_batch
MaxFiles == 3
\* largest self.max_workers of a run
MaxWorkers == 2
\* most calls of check_batch main makes
MaxRuns == 2
\* longest line typed at the thread prompt
MaxLine == 2

(***************************************************************************)
(* Program constants.                                                      *)
(***************************************************************************)
\* f.read(min(4096, size))
ReadChunk == 4096
\* str(e)[:50]
DetailLen == 50
\* bar_length = 30
bar_length == 30
\* 1 <= threads <= 16
MaxThreads == 16
\* settings['threads'] = 4
DefaultThreads == 4

\* thread counts the settings can hold, 1..MaxThreads, as far as the model
\* follows them
WorkerCounts == 1..MaxWorkers

Min(a, b) == IF a <= b THEN a ELSE b

(***************************************************************************)
(* Paths are sequences of components; os.path.basename is the last one.    *)
(***************************************************************************)
Paths == { <<"a">>, <<"d", "b">> }

basename(filepath) == IF Len(filepath) = 0 THEN "" ELSE filepath[Len(filepath)]

(***************************************************************************)
(* Exceptions.  PermissionError is a subclass of OSError, OSError of       *)
(* Exception.  str(e) is a sequence of characters.                         *)
(***************************************************************************)
NoExc == "NoExc"
ExcClasses == {"PermissionError", "OSError"}

IsPermissionError(cls) == cls = "PermissionError"
IsException(cls) == cls \in {"PermissionError", "OSError", "Exception"}

ShortMsg == <<"E", "I", "O">>
LongMsg == [k \in 1..(DetailLen + 10) |-> IF k <= DetailLen THEN "x" ELSE "y"]
Msgs == {ShortMsg, LongMsg}

\* str(e)[:50]
Truncate(msg) == SubSeq(msg, 1, Min(DetailLen, Len(msg)))

(***************************************************************************)
(* What the filesystem answers for one path during one check_file call.    *)
(*   exists     : os.path.exists(filepath)                                 *)
(*   sizeExc    : class raised by os.path.getsize, or NoExc                *)
(*   size       : value of os.path.getsize when it does not raise          *)
(*   openExc    : class raised by open(filepath, 'rb'), or NoExc           *)
(*   badOffset  : offset of the first byte whose read fails, -1 if none    *)
(*   msg        : str(e) of whichever exception is raised                  *)
(* exists = TRUE with sizeExc # NoExc is a file removed between the two    *)
(* calls.                                                                  *)
(***************************************************************************)
Sizes == {0, 100, ReadChunk, 5000}
BadOffsets == {-1, 0, 4500}

Answers == [exists : BOOLEAN, sizeExc : {NoExc} \cup ExcClasses, size : Sizes,
            openExc : {NoExc} \cup ExcClasses, badOffset : BadOffsets,
            msg : Msgs]

\* f.read(n): fails when a bad byte lies inside the first n bytes
ReadExc(ans, n) == IF ans.badOffset >= 0 /\ ans.badOffset < n THEN "OSError" ELSE NoExc

(***************************************************************************)
(* Result records and the error strings of check_file.                     *)
(***************************************************************************)
None == [kind |-> "None", detail |-> <<>>]
ErrNotFound == [kind |-> "not found", detail |-> <<>>]
\* the empty-file branch leaving result['error'] unset
ErrEmpty_Unset == [kind |-> "None", detail |-> <<>>]

\* result['error'] = "空文件"
ErrEmpty == [kind |-> "empty file", detail |-> <<>>]
ErrPermission == [kind |-> "permission denied", detail |-> <<>>]
ErrReadFailed(msg) == [kind |-> "read failed", detail |-> Truncate(msg)]
ErrCheck(msg) == [kind |-> "check error", detail |-> Truncate(msg)]

NewResult(filepath) ==
    [file |-> filepath, filename |-> basename(filepath), exists |-> FALSE,
     readable |-> FALSE, size |-> 0, error |-> None]

\* outcome of a call: a returned record, or an exception leaving the call
Returns(r) == [raised |-> NoExc, result |-> r]
Raises(cls, r) == [raised |-> cls, result |-> r]

\* InnerTry with the handlers in the other order: "except Exception" first
InnerTry_BroadFirst(result, ans) ==
    LET exc == IF ans.openExc # NoExc THEN ans.openExc
               ELSE ReadExc(ans, Min(ReadChunk, result.size))
    IN  IF exc = NoExc THEN Returns([result EXCEPT !.readable = TRUE])
        ELSE IF IsException(exc) THEN Returns([result EXCEPT !.error = ErrReadFailed(ans.msg)])
        ELSE IF IsPermissionError(exc) THEN Returns([result EXCEPT !.error = ErrPermission])
        ELSE Raises(exc, result)

\* the inner try: open, read the head, set readable
InnerTry(result, ans) ==
    LET exc == IF ans.openExc # NoExc THEN ans.openExc
               ELSE ReadExc(ans, Min(ReadChunk, result.size))
    IN  IF exc = NoExc THEN Returns([result EXCEPT !.readable = TRUE])
        ELSE IF IsPermissionError(exc) THEN Returns([result EXCEPT !.error = ErrPermission])
        ELSE IF IsException(exc) THEN Returns([result EXCEPT !.error = ErrReadFailed(ans.msg)])
        ELSE Raises(exc, result)

\* OuterExcept catching PermissionError only
OuterExcept_OnlyPermission(result, cls, msg) ==
    IF IsPermissionError(cls) THEN Returns([result EXCEPT !.error = ErrCheck(msg)])
    ELSE Raises(cls, result)

\* the outer handler: except Exception as e
OuterExcept(result, cls, msg) ==
    IF IsException(cls) THEN Returns([result EXCEPT !.error = ErrCheck(msg)])
    ELSE Raises(cls, result)

\* check_file setting result['exists'] only after os.path.getsize
check_file_LateExists(filepath, ans) ==
    LET result == NewResult(filepath)
    IN  IF ~ans.exists
        THEN Returns([result EXCEPT !.error = ErrNotFound])
        ELSE IF ans.sizeExc # NoExc
             THEN OuterExcept(result, ans.sizeExc, ans.msg)
             ELSE LET r2 == [result EXCEPT !.exists = TRUE, !.size = ans.size]
                  IN  IF ans.size = 0
                      THEN Returns([r2 EXCEPT !.error = ErrEmpty])
                      ELSE LET inner == InnerTry(r2, ans)
                           IN  IF inner.raised = NoExc THEN inner
                               ELSE OuterExcept(inner.result, inner.raised, ans.msg)

check_file(filepath, ans) ==
    LET result == NewResult(filepath)
    IN  IF ~ans.exists
        THEN Returns([result EXCEPT !.error = ErrNotFound])
        ELSE LET r1 == [result EXCEPT !.exists = TRUE]
             IN  IF ans.sizeExc # NoExc
                 THEN OuterExcept(r1, ans.sizeExc, ans.msg)
                 ELSE LET r2 == [r1 EXCEPT !.size = ans.size]
                      IN  IF ans.size = 0
                          THEN Returns([r2 EXCEPT !.error = ErrEmpty])
                          ELSE LET inner == InnerTry(r2, ans)
                               IN  IF inner.raised = NoExc THEN inner
                                   ELSE OuterExcept(inner.result, inner.raised, ans.msg)

(***************************************************************************)
(* Filesystems used for the runs of check_batch: between them the two      *)
(* paths show every class of answer.                                       *)
(***************************************************************************)
AnsMissing == [exists |-> FALSE, sizeExc |-> NoExc, size |-> 0, openExc |-> NoExc,
               badOffset |-> -1, msg |-> ShortMsg]
AnsEmpty == [AnsMissing EXCEPT !.exists = TRUE]
AnsOk == [AnsEmpty EXCEPT !.size = 100]
AnsLocked == [AnsOk EXCEPT !.openExc = "PermissionError"]
AnsIoError == [AnsOk EXCEPT !.size = 5000, !.badOffset = 0, !.msg = LongMsg]
AnsVanished == [AnsEmpty EXCEPT !.sizeExc = "OSError"]

FsSamples ==
    { [p \in Paths |-> IF p = <<"a">> THEN AnsMissing ELSE AnsOk],
      [p \in Paths |-> IF p = <<"a">> THEN AnsEmpty ELSE AnsLocked],
      [p \in Paths |-> IF p = <<"a">> THEN AnsIoError ELSE AnsVanished] }

(***************************************************************************)
(* State.                                                                  *)
(***************************************************************************)
VARIABLES
    fs,               \* the filesystem's answers, per path
    max_workers,      \* self.max_workers
    total_files,      \* self.total_files
    processed,        \* self.processed
    results,          \* self.results
    lock,             \* self.lock: 0 when free, else the worker holding it
    file_list,        \* argument of check_batch
    file_queue,       \* the Queue's pending items, oldest first
    unfinished_tasks, \* the Queue's count of items not yet task_done
    threads,          \* the list of started threads
    pc,               \* position of the caller inside check_batch
    i,                \* loop index of check_batch's current loop
    retval,           \* value returned by check_batch
    wpc,              \* position of each worker thread
    filepath,         \* worker local: the dequeued item
    result,           \* worker local: the record returned by check_file
    loaded,           \* worker local: self.processed as read by +=
    stdout,           \* what has been written to sys.stdout
    got,              \* history: per queue item, number of times dequeued
    checked,          \* history: per queue item, number of check_file calls
    acquired,         \* history: the queue items in the order of lock acquisition
    probe,            \* SpecCheckFile: the arguments of a check_file call
    probeOut,         \* SpecCheckFile: the outcome of that call
    settings,         \* main: the settings dict
    dialog,           \* one call of get_settings: the line typed, Ctrl+C, calls made
    mpc,              \* main: "menu", "call" (inside check_batch), "exit"
    runs,             \* main: number of check_batch calls made
    summary,          \* main: what show_results_summary worked out and printed
    opc,              \* position of each thread left over from an interrupted run
    ofilepath,        \* left-over thread local: the dequeued item
    oresult,          \* left-over thread local: the record returned by check_file
    oloaded,          \* left-over thread local: self.processed as read by +=
    old_queue         \* the Queue of the interrupted run

vars == <<fs, max_workers, total_files, processed, results, lock, file_list,
          file_queue, unfinished_tasks, threads, pc, i, retval, wpc, filepath,
          result, loaded, stdout, got, checked, acquired, probe, probeOut,
          settings, dialog, mpc, runs, summary, opc, ofilepath, oresult, oloaded,
          old_queue>>

shared == <<total_files, processed, results, lock, file_queue, unfinished_tasks,
            stdout>>
callerVars == <<file_list, threads, pc, i, retval>>
workerVars == <<wpc, filepath, result, loaded>>
historyVars == <<got, checked, acquired>>
mainVars == <<settings, dialog, mpc, runs, summary>>
orphanVars == <<opc, ofilepath, oresult, oloaded, old_queue>>
envVars == <<fs, max_workers, mainVars, orphanVars>>
probeVars == <<probe, probeOut>>

Workers == 1..MaxWorkers
Items == 1..MaxFiles

\* file lists a caller can pass: every sequence of at most MaxFiles paths
FileLists == UNION { [1..n -> Paths] : n \in 0..MaxFiles }

NoItem == [idx |-> 0, path |-> <<>>]
NoResult == NewResult(<<>>)
NoOutcome == Returns(NoResult)

\* a worker is inside "with self.lock:" at these positions
InLock == {"append", "store", "write"}
\* a worker thread has terminated
Terminated == {"done", "dead"}

(***************************************************************************)
(* FileChecker.__init__, and main's checker.max_workers = threads.         *)
(***************************************************************************)
\* no call of show_results_summary yet
NoSummary ==
    [raised |-> NoExc, total |-> 0, good |-> 0, bad |-> 0, listed |-> FALSE,
     groups |-> <<>>]

\* no call of get_settings yet
NoDialog == [line |-> <<>>, intr |-> "none", calls |-> 0]

InitChecker ==
    /\ max_workers \in WorkerCounts
    /\ results = <<>>
    /\ total_files = 0
    /\ processed = 0
    /\ lock = 0

InitRest ==
    /\ summary = NoSummary
    /\ file_list = <<>>
    /\ file_queue = <<>>
    /\ unfinished_tasks = 0
    /\ threads = <<>>
    /\ pc = "idle"
    /\ i = 0
    /\ retval = <<>>
    /\ wpc = [w \in Workers |-> "unborn"]
    /\ filepath = [w \in Workers |-> NoItem]
    /\ result = [w \in Workers |-> NoResult]
    /\ loaded = [w \in Workers |-> 0]
    /\ stdout = <<>>
    /\ got = [k \in Items |-> 0]
    /\ checked = [k \in Items |-> 0]
    /\ acquired = <<>>
    /\ opc = [w \in Workers |-> "none"]
    /\ ofilepath = [w \in Workers |-> NoItem]
    /\ oresult = [w \in Workers |-> NoResult]
    /\ oloaded = [w \in Workers |-> 0]
    /\ old_queue = <<>>

InitProbe ==
    /\ probe = [path |-> <<>>, ans |-> AnsMissing, calls |-> 0]
    /\ probeOut = NoOutcome

\* Spec starts where main has set checker.max_workers from the settings and
\* is about to call check_batch for the first time
Init ==
    /\ fs \in FsSamples
    /\ InitChecker
    /\ InitRest
    /\ InitProbe
    /\ settings = [threads |-> max_workers]
    /\ dialog = NoDialog
    /\ mpc = "call"
    /\ runs = 1

(***************************************************************************)
(* sys.stdout: the lines check_batch prints and the progress lines.        *)
(***************************************************************************)
Line(kind, n, total, filled, status, name) ==
    [kind |-> kind, processed |-> n, total |-> total, filled |-> filled,
     status |-> status, filename |-> name]

StartLine(total) == Line("start", 0, total, 0, "", "")
NewLine == Line("newline", 0, 0, 0, "", "")
ProgressLine(n, total, r) ==
    Line("progress", n, total, (bar_length * n) \div total,
         IF r.readable THEN "ok" ELSE "bad", r.filename)

(***************************************************************************)
(* check_batch, the caller's side.                                         *)
(***************************************************************************)
\* check_batch without the early return: the resets and prints happen
CheckBatchEmpty_NoGuard ==
    /\ pc = "idle"
    /\ file_list' = <<>>
    /\ stdout' = Append(Append(stdout, StartLine(0)), NewLine)
    /\ retval' = results
    /\ pc' = "returned"
    /\ UNCHANGED <<total_files, processed, results, lock, file_queue,
                   unfinished_tasks, threads, i, workerVars, historyVars,
                   envVars, probeVars>>

\* if not file_list: return []
CheckBatchEmpty ==
    /\ pc = "idle"
    /\ file_list' = <<>>
    /\ retval' = <<>>
    /\ pc' = "returned"
    /\ UNCHANGED <<shared, threads, i, workerVars, historyVars, envVars, probeVars>>

\* the resets, the two prints and the creation of the queue
CheckBatchStart(fl) ==
    /\ pc = "idle"
    /\ fl # <<>>
    /\ file_list' = fl
    /\ total_files' = Len(fl)
    /\ processed' = 0
    /\ results' = <<>>
    /\ stdout' = Append(stdout, StartLine(Len(fl)))
    /\ file_queue' = <<>>
    /\ unfinished_tasks' = 0
    /\ i' = 1
    /\ pc' = "put"
    /\ UNCHANGED <<lock, threads, retval, workerVars, historyVars, envVars, probeVars>>

\* Queue.put
Put(q, item) == Append(q, item)

\* for filepath in file_list: file_queue.put(filepath)
PutFile ==
    /\ pc = "put"
    /\ i <= Len(file_list)
    /\ file_queue' = Put(file_queue, [idx |-> i, path |-> file_list[i]])
    /\ unfinished_tasks' = unfinished_tasks + 1
    /\ IF i < Len(file_list)
       THEN i' = i + 1 /\ pc' = "put"
       ELSE i' = 1 /\ pc' = "spawn"
    /\ UNCHANGED <<total_files, processed, results, lock, stdout, file_list,
                   threads, retval, workerVars, historyVars, envVars, probeVars>>

\* one thread per file, whatever max_workers is
NumThreads_PerFile == total_files

\* range(min(self.max_workers, self.total_files))
NumThreads == Min(max_workers, total_files)

\* t = Thread(target=self.worker); t.start(); threads.append(t)
StartThread ==
    /\ pc = "spawn"
    /\ i <= NumThreads
    /\ wpc' = [wpc EXCEPT ![i] = "get"]
    /\ threads' = Append(threads, i)
    /\ IF i < NumThreads
       THEN i' = i + 1 /\ pc' = "spawn"
       ELSE i' = 1 /\ pc' = "join"
    /\ UNCHANGED <<shared, file_list, retval, filepath, result, loaded,
                   historyVars, envVars, probeVars>>

\* t.join() returns once thread t has terminated
CanJoin(t) == wpc[t] \in Terminated

\* for t in threads: t.join()
JoinThread ==
    /\ pc = "join"
    /\ i <= Len(threads)
    /\ CanJoin(threads[i])
    /\ i' = i + 1
    /\ UNCHANGED <<shared, file_list, threads, pc, retval, workerVars,
                   historyVars, envVars, probeVars>>

\* print(); return self.results
CheckBatchReturn ==
    /\ pc = "join"
    /\ i > Len(threads)
    /\ stdout' = Append(stdout, NewLine)
    /\ retval' = results
    /\ pc' = "returned"
    /\ UNCHANGED <<total_files, processed, results, lock, file_queue,
                   unfinished_tasks, file_list, threads, i, workerVars,
                   historyVars, envVars, probeVars>>

(***************************************************************************)
(* show_results_summary, which main calls on what check_batch returned.    *)
(***************************************************************************)
\* total_time = time.time() - checker.start_time, in clock ticks: 0 when the
\* clock has not advanced during the run
Times == {0, 1}

\* Python's truth value of result['error']: None is false, and each of the
\* strings check_file writes is non-empty
Truthy(error) == error # None

\* number of results listed under error_type
GroupSize(rs, error_type) ==
    Cardinality({ k \in DOMAIN rs : /\ ~rs[k].readable
                                    /\ Truthy(rs[k].error)
                                    /\ rs[k].error = error_type })

show_results_summary(rs, total_time) ==
    IF rs = <<>> THEN NoSummary
    ELSE
        LET total == Len(rs)
            good == Cardinality({ k \in DOMAIN rs : rs[k].readable })
            bad == total - good
            types == { rs[k].error : k \in { j \in DOMAIN rs :
                                               ~rs[j].readable /\ Truthy(rs[j].error) } }
        IN  IF total_time = 0
            THEN [raised |-> "ZeroDivisionError", total |-> total, good |-> good,
                  bad |-> bad, listed |-> FALSE, groups |-> <<>>]
            ELSE [raised |-> NoExc, total |-> total, good |-> good, bad |-> bad,
                  listed |-> bad > 0,
                  groups |-> IF bad > 0
                             THEN [e \in types |-> GroupSize(rs, e)]
                             ELSE <<>>]

\* show_results_summary(results, total_time): main's results is the list
\* self.results itself
ShowResultsSummary(total_time) ==
    /\ pc = "returned"
    /\ file_list # <<>>
    /\ summary' = show_results_summary(results, total_time)
    /\ pc' = "shown"
    /\ UNCHANGED <<shared, file_list, threads, i, retval, workerVars, historyVars,
                   fs, max_workers, settings, dialog, mpc, runs, orphanVars,
                   probeVars>>

(***************************************************************************)
(* worker, one thread's side.                                              *)
(***************************************************************************)
\* a queue that hands out its newest item
GetNowait_Last(q) == [item |-> q[Len(q)], rest |-> SubSeq(q, 1, Len(q) - 1)]

\* Queue.get_nowait on a non-empty queue: the head, and the queue without it
GetNowait(q) == [item |-> Head(q), rest |-> Tail(q)]

\* filepath = file_queue.get_nowait()
WorkerGet(w) ==
    /\ wpc[w] = "get"
    /\ file_queue # <<>>
    /\ LET g == GetNowait(file_queue)
       IN  /\ filepath' = [filepath EXCEPT ![w] = g.item]
           /\ file_queue' = g.rest
           /\ got' = [got EXCEPT ![g.item.idx] = @ + 1]
    /\ wpc' = [wpc EXCEPT ![w] = "check"]
    /\ UNCHANGED <<total_files, processed, results, lock, unfinished_tasks,
                   stdout, callerVars, result, loaded, checked, acquired,
                   envVars, probeVars>>

\* get_nowait raises Empty: except: break
WorkerBreak(w) ==
    /\ wpc[w] = "get"
    /\ file_queue = <<>>
    /\ wpc' = [wpc EXCEPT ![w] = "done"]
    /\ UNCHANGED <<shared, callerVars, filepath, result, loaded, historyVars,
                   envVars, probeVars>>

\* result = self.check_file(filepath)
WorkerCheck(w) ==
    /\ wpc[w] = "check"
    /\ LET out == check_file(filepath[w].path, fs[filepath[w].path])
       IN  IF out.raised = NoExc
           THEN /\ result' = [result EXCEPT ![w] = out.result]
                /\ wpc' = [wpc EXCEPT ![w] = "lock"]
           ELSE /\ result' = result
                /\ wpc' = [wpc EXCEPT ![w] = "dead"]
    /\ checked' = [checked EXCEPT ![filepath[w].idx] = @ + 1]
    /\ UNCHANGED <<shared, callerVars, filepath, loaded, got, acquired, envVars,
                   probeVars>>

\* Lock.acquire succeeds only on a free lock
CanAcquire(w) == lock = 0

\* with self.lock:
WorkerAcquire(w) ==
    /\ wpc[w] = "lock"
    /\ CanAcquire(w)
    /\ lock' = w
    /\ wpc' = [wpc EXCEPT ![w] = "append"]
    /\ acquired' = Append(acquired, filepath[w].idx)
    /\ UNCHANGED <<total_files, processed, results, file_queue, unfinished_tasks,
                   stdout, callerVars, filepath, result, loaded, got, checked,
                   envVars, probeVars>>

\* self.results.append(result), then the read of self.processed that
\* self.processed += 1 starts with
WorkerAppend(w) ==
    /\ wpc[w] = "append"
    /\ results' = Append(results, result[w])
    /\ loaded' = [loaded EXCEPT ![w] = processed]
    /\ wpc' = [wpc EXCEPT ![w] = "store"]
    /\ UNCHANGED <<total_files, processed, lock, file_queue, unfinished_tasks,
                   stdout, callerVars, filepath, result, historyVars,
                   envVars, probeVars>>

\* self.processed += 1, the write of self.processed
WorkerStore(w) ==
    /\ wpc[w] = "store"
    /\ processed' = loaded[w] + 1
    /\ wpc' = [wpc EXCEPT ![w] = "write"]
    /\ UNCHANGED <<total_files, results, lock, file_queue, unfinished_tasks,
                   stdout, callerVars, filepath, result, loaded, historyVars,
                   envVars, probeVars>>

\* leaving "with self.lock:", normally or by an exception
Release(w) == IF lock = w THEN 0 ELSE lock

\* the progress line is written; the lock is released; file_queue.task_done()
WorkerWrite(w) ==
    /\ wpc[w] = "write"
    /\ stdout' = Append(stdout, ProgressLine(processed, total_files, result[w]))
    /\ lock' = Release(w)
    /\ unfinished_tasks' = unfinished_tasks - 1
    /\ wpc' = [wpc EXCEPT ![w] = "get"]
    /\ UNCHANGED <<total_files, processed, results, file_queue, callerVars,
                   filepath, result, loaded, historyVars, envVars, probeVars>>

\* where an exception raised by sys.stdout.write / flush takes the worker:
\* nothing in worker catches it, so it ends the thread
AfterWriteError == "dead"

\* sys.stdout.write or flush raises (a file name the console encoding cannot
\* represent, a closed or broken stdout): the lock is released by the with
\* statement and the exception leaves worker
WorkerWriteFails(w) ==
    /\ wpc[w] = "write"
    /\ lock' = Release(w)
    /\ wpc' = [wpc EXCEPT ![w] = AfterWriteError]
    /\ UNCHANGED <<total_files, processed, results, file_queue, unfinished_tasks,
                   stdout, callerVars, filepath, result, loaded, historyVars,
                   envVars, probeVars>>

Worker(w) ==
    \/ WorkerGet(w)
    \/ WorkerBreak(w)
    \/ WorkerCheck(w)
    \/ WorkerAcquire(w)
    \/ WorkerAppend(w)
    \/ WorkerStore(w)
    \/ WorkerWrite(w)
    \/ WorkerWriteFails(w)

Next ==
    \/ CheckBatchEmpty
    \/ \E fl \in FileLists : CheckBatchStart(fl)
    \/ PutFile
    \/ StartThread
    \/ JoinThread
    \/ CheckBatchReturn
    \/ \E t \in Times : ShowResultsSummary(t)
    \/ \E w \in Workers : Worker(w)

Spec == Init /\ [][Next]_vars

(***************************************************************************)
(* SpecFair: Spec under a fair scheduler.  The thread that called          *)
(* check_batch and every started worker thread keep being scheduled while  *)
(* they have a step to take.                                               *)
(***************************************************************************)
CallerStep == PutFile \/ StartThread \/ JoinThread \/ CheckBatchReturn

SpecFair ==
    /\ Spec
    /\ WF_vars(CallerStep)
    /\ \A w \in Workers : WF_vars(Worker(w))

(***************************************************************************)
(* get_settings: the thread prompt.  A typed line is a sequence of         *)
(* characters; str.strip and int are modelled on it.                       *)
(***************************************************************************)
IsSpace(c) == c = " "
IsDigit(c) == c \in {"0", "1", "2", "3", "4", "5", "6", "7", "8", "9"}
DigitVal(c) ==
    CASE c = "0" -> 0 [] c = "1" -> 1 [] c = "2" -> 2 [] c = "3" -> 3
      [] c = "4" -> 4 [] c = "5" -> 5 [] c = "6" -> 6 [] c = "7" -> 7
      [] c = "8" -> 8 [] c = "9" -> 9

RECURSIVE LStrip(_)
LStrip(line) ==
    IF line # <<>> /\ IsSpace(Head(line)) THEN LStrip(Tail(line)) ELSE line

RECURSIVE RStrip(_)
RStrip(line) ==
    IF line # <<>> /\ IsSpace(line[Len(line)])
    THEN RStrip(SubSeq(line, 1, Len(line) - 1))
    ELSE line

\* str.strip()
Strip(line) == RStrip(LStrip(line))

RECURSIVE Decimal(_)
Decimal(digits) ==
    IF digits = <<>> THEN 0
    ELSE 10 * Decimal(SubSeq(digits, 1, Len(digits) - 1)) + DigitVal(digits[Len(digits)])

\* int(text): an optional sign and one or more digits, else ValueError
ParseInt(text) ==
    LET signed == text # <<>> /\ Head(text) \in {"+", "-"}
        digits == IF signed THEN Tail(text) ELSE text
    IN  IF digits # <<>> /\ \A k \in DOMAIN digits : IsDigit(digits[k])
        THEN [ok |-> TRUE,
              value |-> IF signed /\ Head(text) = "-" THEN 0 - Decimal(digits)
                        ELSE Decimal(digits)]
        ELSE [ok |-> FALSE, value |-> 0]

\* lines a user can type at the thread prompt
Keys == {" ", "0", "1", "6", "7", "-", "a"}
ThreadInputs == UNION { [1..n -> Keys] : n \in 0..MaxLine }

\* the lines typed in the runs of main that the model follows
MainInputs == { <<"1">>, <<"a">> }

\* where Ctrl+C arrives during the dialog: not at all, at the thread prompt,
\* or at one of the two later prompts
Interrupts == {"none", "threads", "later"}

\* get_settings without the range test
get_settings_NoRange(line, intr) ==
    LET text == Strip(line)
        n == ParseInt(text)
    IN  IF intr = "threads" \/ text = <<>> \/ ~n.ok
        THEN [threads |-> DefaultThreads]
        ELSE [threads |-> n.value]

\* the thread count get_settings returns (the other two keys of the dict
\* are not followed)
get_settings(line, intr) ==
    LET text == Strip(line)
        n == ParseInt(text)
    IN  IF intr = "threads" \/ text = <<>> \/ ~n.ok
        THEN [threads |-> DefaultThreads]
        ELSE IF 1 <= n.value /\ n.value <= MaxThreads
             THEN [threads |-> n.value]
             ELSE [threads |-> DefaultThreads]

(***************************************************************************)
(* main: the menu loop around check_batch.                                 *)
(***************************************************************************)
\* the filesystem of the runs of main that the model follows
MainFs == [p \in Paths |-> IF p = <<"a">> THEN AnsMissing ELSE AnsOk]

\* the lists main hands to check_batch: never empty ("if file_list:")
MainFileLists ==
    { fl \in FileLists : /\ fl # <<>>
                         /\ Len(fl) <= MaxWorkers
                         /\ \A j, k \in DOMAIN fl : fl[j] = fl[k] => j = k }

\* a thread left over from an interrupted run is still running
OrphanRunning(w) == opc[w] \notin {"none", "done", "dead"}

\* choice 5: settings = get_settings()
MainSettings(line, intr) ==
    /\ pc = "idle"
    /\ mpc = "menu"
    /\ settings' = get_settings(line, intr)
    /\ UNCHANGED <<shared, callerVars, workerVars, historyVars, fs, max_workers,
                   dialog, mpc, runs, summary, orphanVars, probeVars>>

\* choices 1-4 with a non-empty list: checker.max_workers = settings['threads']
MainPrepare ==
    /\ pc = "idle"
    /\ mpc = "menu"
    /\ runs < MaxRuns
    /\ max_workers' = settings.threads
    /\ mpc' = "call"
    /\ runs' = runs + 1
    /\ UNCHANGED <<shared, callerVars, workerVars, historyVars, fs, settings,
                   dialog, summary, orphanVars, probeVars>>

\* results = checker.check_batch(file_list)
MainCall(fl) ==
    /\ mpc = "call"
    /\ CheckBatchStart(fl)

\* the summary has been shown (or has raised, which main catches): report,
\* back to the menu; the locals of check_batch and its joined threads are
\* gone.  The model forgets here what the run printed and dequeued.
MainAfterBatch ==
    /\ pc = "shown"
    /\ mpc = "call"
    /\ summary' = NoSummary
    /\ pc' = "idle"
    /\ mpc' = "menu"
    /\ file_list' = <<>>
    /\ threads' = <<>>
    /\ i' = 0
    /\ retval' = <<>>
    /\ wpc' = [w \in Workers |-> "unborn"]
    /\ filepath' = [w \in Workers |-> NoItem]
    /\ result' = [w \in Workers |-> NoResult]
    /\ loaded' = [w \in Workers |-> 0]
    /\ stdout' = <<>>
    /\ got' = [k \in Items |-> 0]
    /\ checked' = [k \in Items |-> 0]
    /\ acquired' = <<>>
    /\ UNCHANGED <<total_files, processed, results, lock, file_queue,
                   unfinished_tasks, fs, max_workers, settings, dialog, runs,
                   orphanVars, probeVars>>

\* KeyboardInterrupt reaches the main thread while it is in the join loop and
\* the user answers n: main returns to the menu.  Nothing stops the threads
\* of the run, which keep their queue and the shared checker.
MainInterrupt ==
    /\ pc = "join"
    /\ mpc = "call"
    /\ \A w \in Workers : ~OrphanRunning(w)
    /\ pc' = "idle"
    /\ mpc' = "menu"
    /\ opc' = [w \in Workers |-> IF wpc[w] = "unborn" THEN "none" ELSE wpc[w]]
    /\ ofilepath' = filepath
    /\ oresult' = result
    /\ oloaded' = loaded
    /\ old_queue' = file_queue
    /\ lock' = 0 - lock
    /\ file_queue' = <<>>
    /\ file_list' = <<>>
    /\ threads' = <<>>
    /\ i' = 0
    /\ wpc' = [w \in Workers |-> "unborn"]
    /\ filepath' = [w \in Workers |-> NoItem]
    /\ result' = [w \in Workers |-> NoResult]
    /\ loaded' = [w \in Workers |-> 0]
    /\ stdout' = <<>>
    /\ got' = [k \in Items |-> 0]
    /\ checked' = [k \in Items |-> 0]
    /\ acquired' = <<>>
    /\ UNCHANGED <<total_files, processed, results, unfinished_tasks, retval,
                   fs, max_workers, settings, dialog, runs, summary, probeVars>>

\* the same, and the user answers y: the process ends and its daemon threads
\* with it
MainInterruptExit ==
    /\ pc = "join"
    /\ mpc = "call"
    /\ pc' = "exited"
    /\ mpc' = "exit"
    /\ wpc' = [w \in Workers |-> IF wpc[w] \in Terminated THEN wpc[w] ELSE "unborn"]
    /\ opc' = [w \in Workers |-> "none"]
    /\ UNCHANGED <<shared, file_list, threads, i, retval, filepath, result, loaded,
                   historyVars, fs, max_workers, settings, dialog, runs, summary,
                   ofilepath, oresult, oloaded, old_queue, probeVars>>

(***************************************************************************)
(* worker, run by a thread left over from an interrupted run: the same     *)
(* code on the old queue and the same checker.  It holds the lock as -w.   *)
(***************************************************************************)
orphanFrame == <<callerVars, workerVars, historyVars, fs, max_workers, mainVars,
                 probeVars, total_files, file_queue, unfinished_tasks>>

OrphanGet(w) ==
    /\ opc[w] = "get"
    /\ old_queue # <<>>
    /\ LET g == GetNowait(old_queue)
       IN  /\ ofilepath' = [ofilepath EXCEPT ![w] = g.item]
           /\ old_queue' = g.rest
    /\ opc' = [opc EXCEPT ![w] = "check"]
    /\ UNCHANGED <<orphanFrame, processed, results, lock, stdout, oresult, oloaded>>

OrphanBreak(w) ==
    /\ opc[w] = "get"
    /\ old_queue = <<>>
    /\ opc' = [opc EXCEPT ![w] = "done"]
    /\ UNCHANGED <<orphanFrame, processed, results, lock, stdout, ofilepath,
                   oresult, oloaded, old_queue>>

OrphanCheck(w) ==
    /\ opc[w] = "check"
    /\ LET out == check_file(ofilepath[w].path, fs[ofilepath[w].path])
       IN  IF out.raised = NoExc
           THEN /\ oresult' = [oresult EXCEPT ![w] = out.result]
                /\ opc' = [opc EXCEPT ![w] = "lock"]
           ELSE /\ oresult' = oresult
                /\ opc' = [opc EXCEPT ![w] = "dead"]
    /\ UNCHANGED <<orphanFrame, processed, results, lock, stdout, ofilepath,
                   oloaded, old_queue>>

OrphanAcquire(w) ==
    /\ opc[w] = "lock"
    /\ CanAcquire(w)
    /\ lock' = 0 - w
    /\ opc' = [opc EXCEPT ![w] = "append"]
    /\ UNCHANGED <<orphanFrame, processed, results, stdout, ofilepath, oresult,
                   oloaded, old_queue>>

OrphanAppend(w) ==
    /\ opc[w] = "append"
    /\ results' = Append(results, oresult[w])
    /\ oloaded' = [oloaded EXCEPT ![w] = processed]
    /\ opc' = [opc EXCEPT ![w] = "store"]
    /\ UNCHANGED <<orphanFrame, processed, lock, stdout, ofilepath, oresult,
                   old_queue>>

OrphanStore(w) ==
    /\ opc[w] = "store"
    /\ processed' = oloaded[w] + 1
    /\ opc' = [opc EXCEPT ![w] = "write"]
    /\ UNCHANGED <<orphanFrame, results, lock, stdout, ofilepath, oresult,
                   oloaded, old_queue>>

OrphanWrite(w) ==
    /\ opc[w] = "write"
    /\ stdout' = Append(stdout, ProgressLine(processed, total_files, oresult[w]))
    /\ lock' = Release(0 - w)
    /\ opc' = [opc EXCEPT ![w] = "get"]
    /\ UNCHANGED <<orphanFrame, processed, results, ofilepath, oresult, oloaded,
                   old_queue>>

OrphanWriteFails(w) ==
    /\ opc[w] = "write"
    /\ lock' = Release(0 - w)
    /\ opc' = [opc EXCEPT ![w] = AfterWriteError]
    /\ UNCHANGED <<orphanFrame, processed, results, stdout, ofilepath, oresult,
                   oloaded, old_queue>>

Orphan(w) ==
    \/ OrphanGet(w)
    \/ OrphanBreak(w)
    \/ OrphanCheck(w)
    \/ OrphanAcquire(w)
    \/ OrphanAppend(w)
    \/ OrphanStore(w)
    \/ OrphanWrite(w)
    \/ OrphanWriteFails(w)

(***************************************************************************)
(* SpecMain: main from its start, with the settings dialog, up to MaxRuns  *)
(* calls of check_batch and Ctrl+C during the join loop.  The model        *)
(* follows the left-over threads of one interrupted run at a time.         *)
(***************************************************************************)
InitMain ==
    /\ fs = MainFs
    /\ settings = [threads |-> DefaultThreads]
    /\ max_workers = settings.threads
    /\ results = <<>>
    /\ total_files = 0
    /\ processed = 0
    /\ lock = 0
    /\ InitRest
    /\ InitProbe
    /\ dialog = NoDialog
    /\ mpc = "menu"
    /\ runs = 0

NextMain ==
    \/ \E line \in MainInputs : MainSettings(line, "none")
    \/ MainPrepare
    \/ \E fl \in MainFileLists : MainCall(fl)
    \/ PutFile
    \/ StartThread
    \/ JoinThread
    \/ CheckBatchReturn
    \/ \E t \in Times : ShowResultsSummary(t)
    \/ MainAfterBatch
    \/ MainInterrupt
    \/ MainInterruptExit
    \/ \E w \in Workers : Worker(w)
    \/ \E w \in Workers : Orphan(w)

SpecMain == InitMain /\ [][NextMain]_vars

(***************************************************************************)
(* SpecSettings: one call of get_settings, on any line of up to MaxLine    *)
(* keys typed at the thread prompt and Ctrl+C at any prompt or none.       *)
(***************************************************************************)
InitSettings ==
    /\ fs = MainFs
    /\ settings = [threads |-> DefaultThreads]
    /\ max_workers = settings.threads
    /\ results = <<>>
    /\ total_files = 0
    /\ processed = 0
    /\ lock = 0
    /\ InitRest
    /\ InitProbe
    /\ dialog \in [line : ThreadInputs, intr : Interrupts, calls : {0}]
    /\ mpc = "menu"
    /\ runs = 0

\* new_settings = get_settings(); if new_settings: settings = new_settings
GetSettingsCall ==
    /\ dialog.calls = 0
    /\ settings' = get_settings(dialog.line, dialog.intr)
    /\ dialog' = [dialog EXCEPT !.calls = 1]
    /\ UNCHANGED <<shared, callerVars, workerVars, historyVars, fs, max_workers,
                   mpc, runs, summary, orphanVars, probeVars>>

NextSettings == GetSettingsCall

SpecSettings == InitSettings /\ [][NextSettings]_vars

(***************************************************************************)
(* SpecCheckFile: one call of check_file, on any path and any answers of   *)
(* the filesystem.                                                         *)
(***************************************************************************)
InitCheckFile ==
    /\ fs \in FsSamples
    /\ InitChecker
    /\ InitRest
    /\ probe \in [path : Paths, ans : Answers, calls : {0}]
    /\ probeOut = NoOutcome
    /\ settings = [threads |-> max_workers]
    /\ dialog = NoDialog
    /\ mpc = "call"
    /\ runs = 0

\* a file opened in a mode that truncates it
AfterCheck_Truncates(ans) == [ans EXCEPT !.size = 0]

\* what the file answers after check_file has opened it with mode 'rb' and
\* read its head: the same as before
AfterCheck(ans) == ans

\* self.check_file(filepath), called up to twice on the same path with
\* nothing else touching the filesystem in between
CheckFileCall ==
    /\ probe.calls < 2
    /\ probeOut' = check_file(probe.path, probe.ans)
    /\ probe' = [probe EXCEPT !.calls = @ + 1, !.ans = AfterCheck(@)]
    /\ UNCHANGED <<shared, callerVars, workerVars, historyVars, envVars>>

NextCheckFile == CheckFileCall

SpecCheckFile == InitCheckFile /\ [][NextCheckFile]_vars

(***************************************************************************)
(* Helpers of the properties.                                              *)
(***************************************************************************)
\* number of positions of sequence s holding a value satisfying Test
Count(s, Test(_)) == Cardinality({k \in DOMAIN s : Test(s[k])})

\* the record check_file returned, once it has been called
Called == probe.calls > 0
R == probeOut.result

\* a worker holds a dequeued path whose result is not yet in results
HoldsUnrecorded(w) == wpc[w] \in {"check", "lock", "append"}

\* a worker thread that has been started and has not terminated
Running(w) == wpc[w] \notin (Terminated \cup {"unborn"})

(***************************************************************************)
(* Properties of check_batch and worker, checked under Spec.               *)
(***************************************************************************)

\* C1: check_batch on a non-empty list of N paths returns exactly N results
\* whose 'file' values are the input paths, each as often as it was given.
C1_AllPathsReturned ==
    (pc = "returned" /\ file_list # <<>>) =>
        /\ Len(retval) = Len(file_list)
        /\ \A p \in Paths :
               Count(retval, LAMBDA r : r.file = p) = Count(file_list, LAMBDA f : f = p)

\* C2: every queued path is dequeued at most once and checked at most once
\* while the run lasts, and exactly once by the time check_batch returns.
C2_ExactlyOnce ==
    /\ \A k \in Items : got[k] <= 1 /\ checked[k] <= got[k]
    /\ pc = "returned" => \A k \in DOMAIN file_list : got[k] = 1 /\ checked[k] = 1

\* C3: while a call of check_batch is under way every step leaves processed
\* unchanged or adds exactly 1 to it, and when the call returns processed is
\* the length of the results list.
C3_ProcessedMonotonic ==
    [][ (pc \in {"put", "spawn", "join"}) =>
            ( /\ (processed' = processed \/ processed' = processed + 1)
              /\ (pc' = "returned" => (processed' = Len(results') /\ retval' = results')) ) ]_vars

\* C4: at most one thread is inside "with self.lock:", and whenever the lock
\* is free processed equals the length of results.
C4_LockedAppendIncrement ==
    /\ Cardinality({w \in Workers : wpc[w] \in InLock})
         + Cardinality({w \in Workers : opc[w] \in InLock}) <= 1
    /\ \A w \in Workers : wpc[w] \in InLock => lock = w
    /\ \A w \in Workers : opc[w] \in InLock => lock = 0 - w
    /\ lock = 0 => processed = Len(results)

\* C5: when check_batch returns every started worker has terminated, the
\* queue is empty and no worker holds a path it has not recorded.
C5_ReturnsAfterAllDone ==
    pc = "returned" =>
        /\ \A w \in Workers : ~Running(w)
        /\ file_queue = <<>>
        /\ \A w \in Workers : ~HoldsUnrecorded(w)

\* C6: a worker thread terminates only in a step that finds the queue empty.
C6_EndsOnlyOnEmptyQueue ==
    [][ \A w \in Workers :
            (Running(w) /\ wpc'[w] \in Terminated) => file_queue = <<>> ]_vars

\* C10: check_batch called with an empty list has returned an empty list,
\* with no queue item, no started thread and nothing written to stdout.
C10_EmptyListReturnsAtOnce ==
    (pc = "returned" /\ file_list = <<>>) =>
        /\ retval = <<>>
        /\ file_queue = <<>>
        /\ unfinished_tasks = 0
        /\ threads = <<>>
        /\ \A w \in Workers : wpc[w] = "unborn"
        /\ stdout = <<>>

C10_Witness == pc = "returned" /\ file_list = <<>>

\* C13: whatever the number of workers, the set of records check_batch
\* returns is the set of the records check_file gives for the listed paths;
\* so a run with one worker and a run with many return the same set.
C13_SameResultSet ==
    (pc = "returned" /\ file_list # <<>>) =>
        { retval[k] : k \in DOMAIN retval } =
            { check_file(file_list[k], fs[file_list[k]]).result : k \in DOMAIN file_list }

\* the queue items of the whole list, in input order
AllItems == [k \in DOMAIN file_list |-> [idx |-> k, path |-> file_list[k]]]

\* the queue holds the items from position n on, in input order
QueueIsSuffixFrom(n) == file_queue = SubSeq(AllItems, n, Len(AllItems))

\* C14: while check_batch fills the queue no worker has been started and the
\* queue holds the paths put so far in input order; once a worker has been
\* started the whole list has been put, no step adds to the queue, and the
\* queue is what is left of the list after handing out its first paths, each
\* once, in input order.
C14_QueueFilledFirst ==
    /\ [](pc = "put" =>
             /\ \A w \in Workers : wpc[w] = "unborn"
             /\ file_queue = SubSeq(AllItems, 1, Len(file_queue))
             /\ Len(file_queue) \in {i - 1, i})
    /\ []((\E w \in Workers : wpc[w] # "unborn") =>
             /\ pc \notin {"idle", "put"}
             /\ \E n \in 1..(Len(file_list) + 1) :
                    /\ QueueIsSuffixFrom(n)
                    /\ \A k \in DOMAIN file_list : got[k] = IF k < n THEN 1 ELSE 0)
    /\ [][ (\E w \in Workers : wpc[w] # "unborn") =>
                Len(file_queue') <= Len(file_queue) ]_vars

\* of three paths the first two have been handed out and the third is queued
C14_Witness ==
    /\ pc = "join"
    /\ Len(file_list) = 3
    /\ got[1] = 1 /\ got[2] = 1 /\ got[3] = 0
    /\ file_queue = <<[idx |-> 3, path |-> file_list[3]]>>

\* a run of check_batch that has begun returns
RunReturns == (pc \in {"put", "spawn", "join"}) ~> (pc = "returned")

\* C15: under fair scheduling a run of check_batch that has begun returns,
\* and every started worker ends by finding the queue empty.
C15_EveryWorkerFindsQueueEmpty ==
    /\ RunReturns
    /\ \A w \in Workers : (wpc[w] # "unborn") ~> (wpc[w] = "done")

\* the progress lines written so far, in the order written
IsProgress(l) == l.kind = "progress"
ProgressLines == SelectSeq(stdout, IsProgress)

\* C17: results holds the records in the order in which the workers took the
\* lock; the k-th progress line written carries the count k and the file
\* name of results[k]; and when check_batch returns from a run of N paths
\* exactly N progress lines have been written.
C17_ProgressFollowsResults ==
    /\ Len(results) <= Len(acquired)
    /\ \A k \in DOMAIN results : results[k].file = file_list[acquired[k]]
    /\ Len(ProgressLines) <= Len(results)
    /\ \A k \in DOMAIN ProgressLines :
           /\ ProgressLines[k].processed = k
           /\ ProgressLines[k].filename = results[k].filename
    /\ (pc = "returned" /\ file_list # <<>>) => Len(ProgressLines) = Len(file_list)

(***************************************************************************)
(* Properties of main and the settings dialog, checked under SpecMain and  *)
(* SpecSettings.                                                           *)
(***************************************************************************)

\* C11: once check_batch has started its threads, their number is the
\* smaller of the thread count held in the settings when the run began and
\* the number of files, so at most the number of files and at most 16; while
\* it is starting them there are no more than that.
C11_ThreadCount ==
    (mpc = "call" /\ pc \in {"spawn", "join", "returned"}) =>
        LET n == Len(file_list)
            started == Cardinality({ w \in Workers : wpc[w] # "unborn" })
            want == IF settings.threads < n THEN settings.threads ELSE n
        IN  /\ started = Len(threads)
            /\ pc = "spawn" => started < want
            /\ pc # "spawn" => started = want
            /\ started <= n
            /\ started <= 16

\* a run of two files under a thread count of 1 has started its one thread
C11_Witness ==
    /\ mpc = "call"
    /\ pc = "join"
    /\ settings.threads = 1
    /\ Len(file_list) = 2
    /\ Len(threads) = 1

\* lines that are no integer, or an integer outside 1..16
BadLines ==
    { <<>>, <<" ">>, <<"a">>, <<"-">>, <<"0">>, <<"1", "7">>, <<"7", "7">>,
      <<"-", "1">>, <<"1", "a">>, <<"0", "0">>, <<"6", "-">>, <<" ", "0">> }

\* C12: the thread count get_settings returns is between 1 and 16, and it is
\* the default 4 when the line typed is no integer or an integer outside
\* 1..16.
C12_ThreadsInRange ==
    dialog.calls = 1 =>
        /\ settings.threads \in 1..16
        /\ dialog.line \in BadLines => settings.threads = 4

\* "17" was typed, no Ctrl+C, and the settings hold 4
C12_Witness ==
    /\ dialog.calls = 1
    /\ dialog.line = <<"1", "7">>
    /\ dialog.intr = "none"
    /\ settings.threads = 4

\* C19: while a call of check_batch is under way no thread started by an
\* earlier call is still running, so only threads of the current call touch
\* results and processed.
C19_RunsNeverOverlap ==
    (pc \in {"put", "spawn", "join"}) => \A w \in Workers : ~OrphanRunning(w)

\* C20: whenever a thread is about to write a progress line, total_files > 0
\* and 1 <= processed <= total_files, so the number of filled cells is within
\* 0..30 and is 30 exactly when processed = total_files.
C20_ProgressInRange ==
    (\E w \in Workers : wpc[w] = "write" \/ opc[w] = "write") =>
        /\ total_files > 0
        /\ 1 <= processed /\ processed <= total_files
        /\ LET filled == (bar_length * processed) \div total_files
           IN  /\ filled \in 0..30
               /\ filled = 30 <=> processed = total_files

(***************************************************************************)
(* Properties of check_file, checked under SpecCheckFile.                  *)
(***************************************************************************)

\* C7: check_file returns a record whatever the filesystem answers, and a
\* record that is not readable carries the failure in its error field.
C7_NeverRaises ==
    Called =>
        /\ probeOut.raised = NoExc
        /\ R.file = probe.path
        /\ ~R.readable => R.error # None

C7_Witness ==
    /\ Called
    /\ probe.ans.exists
    /\ probe.ans.sizeExc = "OSError"
    /\ R.error.kind = "check error"

\* C8: in every returned record, readable implies no error, and not exists
\* implies size 0 and the error 'not found'.
C8_RecordInvariant ==
    Called =>
        /\ R.readable => R.error = None
        /\ ~R.exists => (R.size = 0 /\ R.error = ErrNotFound)

C8_Witness ==
    /\ Called
    /\ ~probe.ans.exists
    /\ ~R.exists
    /\ R.size = 0
    /\ R.error = ErrNotFound

\* C9: check_file classifies by the first rule that applies: absent; size
\* query failing; size 0; open or head read failing with a permission
\* error; failing otherwise; else readable.
HeadReadOk(ans) == ans.badOffset < 0 \/ ans.badOffset >= Min(4096, ans.size)

C9_Classification ==
    Called =>
        LET a == probe.ans
        IN  /\ ~a.exists =>
                (~R.exists /\ ~R.readable /\ R.size = 0 /\ R.error = ErrNotFound)
            /\ (a.exists /\ a.sizeExc # NoExc) =>
                (R.exists /\ ~R.readable /\ R.error.kind = "check error")
            /\ (a.exists /\ a.sizeExc = NoExc /\ a.size = 0) =>
                (R.exists /\ ~R.readable /\ R.size = 0 /\ R.error = ErrEmpty)
            /\ (a.exists /\ a.sizeExc = NoExc /\ a.size > 0) =>
                /\ R.exists /\ R.size = a.size
                /\ (a.openExc = NoExc /\ HeadReadOk(a)) =>
                       (R.readable /\ R.error = None)
                /\ a.openExc = "PermissionError" =>
                       (~R.readable /\ R.error = ErrPermission)
                /\ (a.openExc = "OSError" \/ (a.openExc = NoExc /\ ~HeadReadOk(a))) =>
                       (~R.readable /\ R.error.kind = "read failed")

C9_Witness ==
    /\ Called
    /\ probe.ans.exists
    /\ probe.ans.sizeExc = NoExc
    /\ probe.ans.size = 5000
    /\ probe.ans.openExc = NoExc
    /\ probe.ans.badOffset = 4500
    /\ R.readable

RECURSIVE SumOver(_, _)
\* the sum of f over the set S
SumOver(f, S) ==
    IF S = {} THEN 0
    ELSE LET x == CHOOSE y \in S : TRUE IN f[x] + SumOver(f, S \ {x})

====
